---- MODULE Spec2Model ----
(***************************************************************************)
(* Model of drone_controller.py: the MSP packet builder (MSPProtocol), the *)
(* navigation commands of DroneController (takeoff, move, rotate, land,    *)
(* close) on the serial path and on the remote-API path, and the flight    *)
(* sequence of main().                                                     *)
(*                                                                         *)
(* Time is counted in ticks of 50 ms (the sleep of MSPProtocol.send_command*)
(* is one tick, the 0.1 s sleep of a loop step is two).  The value         *)
(* time.time() - start_time of a hold loop is the variable elapsed.        *)
(***************************************************************************)
EXTENDS Integers, Sequences, FiniteSets, TLC

\* ---------------------------------------------------------------- bounds
MaxX == 2          \* x arguments of move are -MaxX, 0 and MaxX
MaxY == 1          \* y arguments of move are 0 and MaxY
MaxAlt == 1        \* z and height arguments are 0 and MaxAlt
MaxTurn == 270     \* rotate arguments are -MaxTurn, 0 and MaxTurn degrees
MaxJitter == 1     \* a sleep may overrun by up to MaxJitter ticks
MaxCalls == 2      \* calls an arbitrary caller makes on one controller
CountCap == 2      \* the frame and request counters saturate at CountCap
MaxPayload == 2    \* payload bytes of a packet handed to send_command directly

Xs == {0 - MaxX, 0, MaxX}
Ys == {0, MaxY}
Alts == {0, MaxAlt}
Degrees == {0 - MaxTurn, 0, MaxTurn}
Jitter == 0..MaxJitter
SampleBytes == {0, 1, 170, 255}
Payloads == UNION {[1..n -> SampleBytes] : n \in 0..MaxPayload}

\* ------------------------------------------------------ program constants
MSP_SET_RAW_RC == 200
MSP_ARM == 210
MSP_DISARM == 211

TicksPerSecond == 20
CommandSleep == 1        \* time.sleep(0.05) in MSPProtocol.send_command
StepSleep == 2           \* time.sleep(0.1) in the ramp and hold loops

Neutral == 1500
AuxDefault == 1000
ChannelMin == 1000
ChannelMax == 2000
Gain == 100
RollPitchMin == 1400
RollPitchMax == 1600
YawRight == 1600
YawLeft == 1400

TakeoffRampStart == 1000
TakeoffRampStop == 1500
TakeoffRampStep == 10
SettleThrottle == 1550
SettleSteps == 20
LandRampStart == 1500
LandRampStop == 1300
LandRampStep == 5

MoveSecondsPerUnit == 2
DegreesPerSecond == 45
FullTurn == 360

MainHeight == 10
MainX == 50
MainY == 0
MainZ == 10
MainDegrees == 180

\* ------------------------------------------------------------ packet codec
RECURSIVE Xor(_, _)
\* the ^ operator of Python on two non-negative integers
Xor(a, b) ==
  IF a = 0 THEN b
  ELSE IF b = 0 THEN a
  ELSE (((a % 2) + (b % 2)) % 2) + 2 * Xor(a \div 2, b \div 2)

RECURSIVE calculate_checksum(_)
\* MSPProtocol._calculate_checksum: XOR fold seeded at 0
calculate_checksum(data) ==
  IF data = <<>> THEN 0
  ELSE Xor(calculate_checksum(SubSeq(data, 1, Len(data) - 1)), data[Len(data)])

\* struct.pack('<H', v): two bytes, low byte first
PackH(v) == <<v % 256, (v \div 256) % 256>>

\* the checksum is taken over the whole packet, header included
Packet_ChecksumAll(command, data) ==
  LET body == <<Len(data), command>> \o data
  IN  <<36, 77, 60>> \o body \o <<calculate_checksum(<<36, 77, 60>> \o body)>>

\* the packet MSPProtocol.send_command builds: '$M<', size, command, data, checksum
Packet(command, data) ==
  LET body == <<Len(data), command>> \o data
  IN  <<36, 77, 60>> \o body \o <<calculate_checksum(body)>>

\* the payload MSPProtocol.set_rc_channels packs, aux1..aux4 at their defaults
AuxChannels == <<AuxDefault, AuxDefault, AuxDefault, AuxDefault>>

RcData(roll, pitch, throttle, yaw) ==
  LET channels == <<roll, pitch, throttle, yaw>> \o AuxChannels
  IN  PackH(channels[1]) \o PackH(channels[2]) \o PackH(channels[3]) \o PackH(channels[4])
      \o PackH(channels[5]) \o PackH(channels[6]) \o PackH(channels[7]) \o PackH(channels[8])

RcFrame(roll, pitch, throttle, yaw) == Packet(MSP_SET_RAW_RC, RcData(roll, pitch, throttle, yaw))
ArmFrame == Packet(MSP_ARM, <<>>)
DisarmFrame == Packet(MSP_DISARM, <<>>)
NoFrame == <<>>

\* reading a written frame back
FrameCommand(f) == f[5]
IsRc(f) == f # NoFrame /\ FrameCommand(f) = MSP_SET_RAW_RC
Channel(f, n) == f[5 + 2 * n - 1] + 256 * f[5 + 2 * n]
Roll(f) == Channel(f, 1)
Pitch(f) == Channel(f, 2)
Throttle(f) == Channel(f, 3)
Yaw(f) == Channel(f, 4)
IsNeutral(f) ==
  IsRc(f) /\ Roll(f) = Neutral /\ Pitch(f) = Neutral /\ Throttle(f) = Neutral /\ Yaw(f) = Neutral

\* ---------------------------------------------------------- channel mapper
Abs(n) == IF n < 0 THEN 0 - n ELSE n
Max(a, b) == IF a > b THEN a ELSE b
Min(a, b) == IF a < b THEN a ELSE b

\* int((delta / distance) * 100) with distance = sqrt(d2): truncation towards zero
Deflection(delta, d2) ==
  LET m == CHOOSE k \in 0..Gain :
             /\ k * k * d2 <= Gain * Gain * delta * delta
             /\ (k + 1) * (k + 1) * d2 > Gain * Gain * delta * delta
  IN  IF delta < 0 THEN 0 - m ELSE m

Clamp(v) == Max(RollPitchMin, Min(RollPitchMax, v))

\* the direction is neither normalised by the distance nor limited
AxisValue_Raw(delta, d2) == Neutral + Gain * delta

\* roll_value / pitch_value of move after the limiting step
AxisValue(delta, d2) == Clamp(Neutral + Deflection(delta, d2))

\* time.time() - start_time < move_time, move_time = distance * 2 seconds
MoveHolding(e, d2) ==
  e * e < MoveSecondsPerUnit * MoveSecondsPerUnit * TicksPerSecond * TicksPerSecond * d2

\* the loop test of rotate written with <= instead of <
RotateHolding_Inclusive(e, degrees) == DegreesPerSecond * e <= TicksPerSecond * Abs(degrees)

\* time.time() - start_time < rotate_time, rotate_time = abs(degrees) / 45 seconds
RotateHolding(e, degrees) == DegreesPerSecond * e < TicksPerSecond * Abs(degrees)

\* the yaw directions exchanged
YawValue_Reversed(degrees) ==
  IF degrees > 0 THEN YawLeft ELSE IF degrees < 0 THEN YawRight ELSE Neutral

YawValue(degrees) ==
  IF degrees > 0 THEN YawRight ELSE IF degrees < 0 THEN YawLeft ELSE Neutral

\* the heading update without the modulo
NextHeading_NoWrap(heading, degrees) == heading + degrees

\* (current_heading + degrees) % 360 as Python computes it for integers
NextHeading(heading, degrees) == (heading + degrees) % FullTurn

Bump(n) == IF n < CountCap THEN n + 1 ELSE n

\* ------------------------------------------------------------------ state
VARIABLES
  msp,               \* TRUE iff self.msp is an MSPProtocol (a serial port was given)
  is_open,           \* self.msp.serial.is_open
  current_position,  \* self.current_position
  current_heading,   \* self.current_heading
  pc,                \* where the command in progress stands ("idle": none)
  op,                \* the navigation call in progress, or the last one
  throttle,          \* loop variable of the throttle ramps
  settle,            \* loop counter of the settle window of takeoff
  roll_value,        \* locals of move
  pitch_value,
  yaw_value,         \* local of rotate
  elapsed,           \* time.time() - start_time of the hold loop, in ticks
  result,            \* what the last call returned, or "raised"
  lastFrame,         \* the bytes of the last packet written to the serial port
  disarms,           \* DISARM packets written to the serial port, saturating
  cmdFrames,         \* packets written by the call in progress, saturating
  holdFrames,        \* iterations of the hold loop of the call in progress, saturating
  requests,          \* requests.post calls made, saturating
  closes,            \* serial.close() calls made, saturating
  calls,             \* calls the arbitrary caller has made
  airborne,          \* TRUE from a completed takeoff to the next completed land
  mainpc,            \* position of main() in its flight sequence ("free": no main)
  incall,            \* main() is waiting for the call it made to return
  exc                \* main(): "none", "handled" (caught by the except block) or
                     \* "propagating" (raised inside the except block)

vars == <<msp, is_open, current_position, current_heading, pc, op, throttle, settle,
          roll_value, pitch_value, yaw_value, elapsed, result, lastFrame, disarms,
          cmdFrames, holdFrames, requests, closes, calls, airborne,
          mainpc, incall, exc>>

poseVars == <<current_position, current_heading, airborne>>
linkVars == <<lastFrame, disarms>>
localVars == <<throttle, settle, roll_value, pitch_value, yaw_value, elapsed>>
callerVars == <<mainpc, incall, exc, calls>>
closeVars == <<is_open, closes>>

NoOp == [name |-> "none", x |-> 0, y |-> 0, z |-> 0, degrees |-> 0, height |-> 0]

\* DroneController.__init__ (and MSPProtocol.__init__ when a port is given)
InitController ==
  /\ msp \in BOOLEAN
  /\ is_open = msp
  /\ current_position = [x |-> 0, y |-> 0, z |-> 0]
  /\ current_heading = 0
  /\ pc = "idle"
  /\ op = NoOp
  /\ throttle = 0 /\ settle = 0
  /\ roll_value = 0 /\ pitch_value = 0 /\ yaw_value = 0
  /\ elapsed = 0
  /\ result = "none"
  /\ lastFrame = NoFrame
  /\ disarms = 0
  /\ cmdFrames = 0 /\ holdFrames = 0
  /\ requests = 0
  /\ closes = 0
  /\ calls = 0
  /\ airborne = FALSE
  /\ incall = FALSE
  /\ exc = "none"

\* a controller driven by an arbitrary caller
Init == InitController /\ mainpc = "free"

\* a controller driven by main()
InitMain == InitController /\ mainpc = "takeoff"

Truthy(r) == r \in {"True", "json"}

\* the serial path is taken only while the port is open
UsesBinary_WhileOpen == msp /\ is_open

\* `if self.msp:` at the head of every navigation command
UsesBinary == msp

\* squared planar distance from the current position to the target of move
Distance2 ==
  (op.x - current_position.x) * (op.x - current_position.x)
  + (op.y - current_position.y) * (op.y - current_position.y)

\* ------------------------------------------------------- entering a command
Enter(o, p) ==
  /\ op' = o
  /\ pc' = p
  /\ result' = "pending"
  /\ cmdFrames' = 0
  /\ holdFrames' = 0

\* DroneController.takeoff up to its first packet or request
StartTakeoff(h) ==
  /\ Enter([NoOp EXCEPT !.name = "takeoff", !.height = h],
           IF UsesBinary THEN "takeoff_arm" ELSE "request")
  /\ UNCHANGED localVars

\* the distance of move taken over x, y and z
StartMove_Spatial(x, y, z) ==
  LET delta_x == x - current_position.x
      delta_y == y - current_position.y
      delta_z == z - current_position.z
      d2 == delta_x * delta_x + delta_y * delta_y + delta_z * delta_z
  IN  /\ Enter([NoOp EXCEPT !.name = "move", !.x = x, !.y = y, !.z = z],
               IF UsesBinary
               THEN IF d2 > 0 THEN "move_hold" ELSE "move_update"
               ELSE "request")
      /\ IF UsesBinary /\ d2 > 0
         THEN /\ roll_value' = AxisValue(delta_x, d2)
              /\ pitch_value' = AxisValue(delta_y, d2)
              /\ elapsed' = 0
              /\ UNCHANGED <<throttle, settle, yaw_value>>
         ELSE UNCHANGED localVars

\* DroneController.move up to its first packet or request
StartMove(x, y, z) ==
  LET delta_x == x - current_position.x
      delta_y == y - current_position.y
      d2 == delta_x * delta_x + delta_y * delta_y
  IN  /\ Enter([NoOp EXCEPT !.name = "move", !.x = x, !.y = y, !.z = z],
               IF UsesBinary
               THEN IF d2 > 0 THEN "move_hold" ELSE "move_update"
               ELSE "request")
      /\ IF UsesBinary /\ d2 > 0
         THEN /\ roll_value' = AxisValue(delta_x, d2)
              /\ pitch_value' = AxisValue(delta_y, d2)
              /\ elapsed' = 0
              /\ UNCHANGED <<throttle, settle, yaw_value>>
         ELSE UNCHANGED localVars

\* DroneController.rotate up to its first packet or request
StartRotate(degrees) ==
  /\ Enter([NoOp EXCEPT !.name = "rotate", !.degrees = degrees],
           IF UsesBinary THEN "rotate_hold" ELSE "request")
  /\ IF UsesBinary
     THEN /\ yaw_value' = YawValue(degrees)
          /\ elapsed' = 0
          /\ UNCHANGED <<throttle, settle, roll_value, pitch_value>>
     ELSE UNCHANGED localVars

\* DroneController.land up to its first packet or request
StartLand ==
  /\ Enter([NoOp EXCEPT !.name = "land"],
           IF UsesBinary THEN "land_ramp" ELSE "request")
  /\ IF UsesBinary
     THEN /\ throttle' = LandRampStart
          /\ UNCHANGED <<settle, roll_value, pitch_value, yaw_value, elapsed>>
     ELSE UNCHANGED localVars

\* ------------------------------------------------------------- serial link
\* self.serial.write(packet) succeeds
Written(frame) ==
  /\ is_open
  /\ lastFrame' = frame
  /\ disarms' = IF frame = DisarmFrame THEN Bump(disarms) ELSE disarms
  /\ cmdFrames' = Bump(cmdFrames)

\* the command returns r: its locals die
Return(r) ==
  /\ pc' = "idle"
  /\ result' = r
  /\ throttle' = 0 /\ settle' = 0
  /\ roll_value' = 0 /\ pitch_value' = 0 /\ yaw_value' = 0
  /\ elapsed' = 0

WritingPcs == {"takeoff_arm", "takeoff_ramp", "takeoff_settle", "move_hold",
               "rotate_hold", "land_ramp", "land_disarm"}

\* self.serial.write(packet) raises (port closed, device gone, I/O error): no
\* navigation command and no MSPProtocol method catches it
WriteFailure ==
  /\ pc \in WritingPcs
  /\ Return("raised")
  /\ UNCHANGED <<msp, op, cmdFrames, holdFrames, requests>>
  /\ UNCHANGED <<poseVars, linkVars, callerVars, closeVars>>

\* ------------------------------------------------------------------ takeoff
\* takeoff starts its ramp without arming
TakeoffArm_Skipped ==
  /\ pc = "takeoff_arm"
  /\ pc' = "takeoff_ramp"
  /\ throttle' = TakeoffRampStart
  /\ UNCHANGED <<msp, op, settle, roll_value, pitch_value, yaw_value, elapsed, result,
                 cmdFrames, holdFrames, requests>>
  /\ UNCHANGED <<poseVars, linkVars, callerVars, closeVars>>

TakeoffArm ==
  /\ pc = "takeoff_arm"
  /\ Written(ArmFrame)
  /\ pc' = "takeoff_ramp"
  /\ throttle' = TakeoffRampStart
  /\ UNCHANGED <<msp, op, settle, roll_value, pitch_value, yaw_value, elapsed, result,
                 holdFrames, requests>>
  /\ UNCHANGED <<poseVars, callerVars, closeVars>>

TakeoffRamp ==
  /\ pc = "takeoff_ramp"
  /\ Written(RcFrame(Neutral, Neutral, throttle, Neutral))
  /\ IF throttle + TakeoffRampStep < TakeoffRampStop
     THEN /\ throttle' = throttle + TakeoffRampStep
          /\ UNCHANGED <<pc, settle>>
     ELSE /\ throttle' = 0
          /\ settle' = 0
          /\ pc' = "takeoff_settle"
  /\ UNCHANGED <<msp, op, roll_value, pitch_value, yaw_value, elapsed, result,
                 holdFrames, requests>>
  /\ UNCHANGED <<poseVars, callerVars, closeVars>>

TakeoffSettle ==
  /\ pc = "takeoff_settle"
  /\ Written(RcFrame(Neutral, Neutral, SettleThrottle, Neutral))
  /\ IF settle + 1 < SettleSteps
     THEN /\ settle' = settle + 1
          /\ UNCHANGED pc
     ELSE /\ settle' = 0
          /\ pc' = "takeoff_update"
  /\ UNCHANGED <<msp, op, throttle, roll_value, pitch_value, yaw_value, elapsed, result,
                 holdFrames, requests>>
  /\ UNCHANGED <<poseVars, callerVars, closeVars>>

TakeoffUpdate ==
  /\ pc = "takeoff_update"
  /\ current_position' = [current_position EXCEPT !.z = op.height]
  /\ airborne' = TRUE
  /\ Return("True")
  /\ UNCHANGED <<msp, op, current_heading, cmdFrames, holdFrames, requests>>
  /\ UNCHANGED <<linkVars, callerVars, closeVars>>

\* --------------------------------------------------------------------- move
\* the position follows the target from the first hold packet on
MoveHold_Tracking ==
  /\ pc = "move_hold"
  /\ MoveHolding(elapsed, Distance2)
  /\ Written(RcFrame(roll_value, pitch_value, Neutral, Neutral))
  /\ holdFrames' = Bump(holdFrames)
  /\ \E j \in Jitter : elapsed' = elapsed + CommandSleep + StepSleep + j
  /\ current_position' = [x |-> op.x, y |-> op.y, z |-> op.z]
  /\ UNCHANGED <<msp, op, pc, throttle, settle, roll_value, pitch_value, yaw_value,
                 result, requests, current_heading, airborne>>
  /\ UNCHANGED <<callerVars, closeVars>>

MoveHold ==
  /\ pc = "move_hold"
  /\ MoveHolding(elapsed, Distance2)
  /\ Written(RcFrame(roll_value, pitch_value, Neutral, Neutral))
  /\ holdFrames' = Bump(holdFrames)
  /\ \E j \in Jitter : elapsed' = elapsed + CommandSleep + StepSleep + j
  /\ UNCHANGED <<msp, op, pc, throttle, settle, roll_value, pitch_value, yaw_value,
                 result, requests>>
  /\ UNCHANGED <<poseVars, callerVars, closeVars>>

MoveNeutral ==
  /\ pc = "move_hold"
  /\ ~MoveHolding(elapsed, Distance2)
  /\ Written(RcFrame(Neutral, Neutral, Neutral, Neutral))
  /\ pc' = "move_update"
  /\ UNCHANGED <<msp, op, result, holdFrames, requests>>
  /\ UNCHANGED <<localVars, poseVars, callerVars, closeVars>>

\* the position update of move keeps the old altitude
MoveUpdate_KeepsZ ==
  /\ pc = "move_update"
  /\ current_position' = [x |-> op.x, y |-> op.y, z |-> current_position.z]
  /\ Return("True")
  /\ UNCHANGED <<msp, op, current_heading, airborne, cmdFrames, holdFrames, requests>>
  /\ UNCHANGED <<linkVars, callerVars, closeVars>>

MoveUpdate ==
  /\ pc = "move_update"
  /\ current_position' = [x |-> op.x, y |-> op.y, z |-> op.z]
  /\ Return("True")
  /\ UNCHANGED <<msp, op, current_heading, airborne, cmdFrames, holdFrames, requests>>
  /\ UNCHANGED <<linkVars, callerVars, closeVars>>

\* ------------------------------------------------------------------- rotate
RotateHold ==
  /\ pc = "rotate_hold"
  /\ RotateHolding(elapsed, op.degrees)
  /\ Written(RcFrame(Neutral, Neutral, Neutral, yaw_value))
  /\ holdFrames' = Bump(holdFrames)
  /\ \E j \in Jitter : elapsed' = elapsed + CommandSleep + StepSleep + j
  /\ UNCHANGED <<msp, op, pc, throttle, settle, roll_value, pitch_value, yaw_value,
                 result, requests>>
  /\ UNCHANGED <<poseVars, callerVars, closeVars>>

RotateNeutral ==
  /\ pc = "rotate_hold"
  /\ ~RotateHolding(elapsed, op.degrees)
  /\ Written(RcFrame(Neutral, Neutral, Neutral, Neutral))
  /\ pc' = "rotate_update"
  /\ UNCHANGED <<msp, op, result, holdFrames, requests>>
  /\ UNCHANGED <<localVars, poseVars, callerVars, closeVars>>

RotateUpdate ==
  /\ pc = "rotate_update"
  /\ current_heading' = NextHeading(current_heading, op.degrees)
  /\ Return("True")
  /\ UNCHANGED <<msp, op, current_position, airborne, cmdFrames, holdFrames, requests>>
  /\ UNCHANGED <<linkVars, callerVars, closeVars>>

\* --------------------------------------------------------------------- land
LandRamp ==
  /\ pc = "land_ramp"
  /\ Written(RcFrame(Neutral, Neutral, throttle, Neutral))
  /\ IF throttle - LandRampStep > LandRampStop
     THEN /\ throttle' = throttle - LandRampStep
          /\ UNCHANGED pc
     ELSE /\ throttle' = 0
          /\ pc' = "land_disarm"
  /\ UNCHANGED <<msp, op, settle, roll_value, pitch_value, yaw_value, elapsed, result,
                 holdFrames, requests>>
  /\ UNCHANGED <<poseVars, callerVars, closeVars>>

\* land ends after its ramp without disarming
LandDisarm_Skipped ==
  /\ pc = "land_disarm"
  /\ pc' = "land_update"
  /\ UNCHANGED <<msp, op, result, cmdFrames, holdFrames, requests>>
  /\ UNCHANGED <<localVars, poseVars, linkVars, callerVars, closeVars>>

LandDisarm ==
  /\ pc = "land_disarm"
  /\ Written(DisarmFrame)
  /\ pc' = "land_update"
  /\ UNCHANGED <<msp, op, result, holdFrames, requests>>
  /\ UNCHANGED <<localVars, poseVars, callerVars, closeVars>>

\* land returns without resetting the altitude
LandUpdate_KeepsZ ==
  /\ pc = "land_update"
  /\ airborne' = FALSE
  /\ Return("True")
  /\ UNCHANGED <<msp, op, current_position, current_heading, cmdFrames, holdFrames,
                 requests>>
  /\ UNCHANGED <<linkVars, callerVars, closeVars>>

LandUpdate ==
  /\ pc = "land_update"
  /\ current_position' = [current_position EXCEPT !.z = 0]
  /\ airborne' = FALSE
  /\ Return("True")
  /\ UNCHANGED <<msp, op, current_heading, cmdFrames, holdFrames, requests>>
  /\ UNCHANGED <<linkVars, callerVars, closeVars>>

\* ------------------------------------------------------------ remote API
\* what requests.post and response.json() can produce
Outcomes == {"json", "falsy_json", "bad_status", "exception"}

\* send_command without its `except Exception`
ApiResult_Uncaught(outcome) ==
  IF outcome = "json" THEN "json"
  ELSE IF outcome = "falsy_json" THEN "falsy_json"
  ELSE IF outcome = "exception" THEN "raised"
  ELSE "None"

\* the value DroneController.send_command returns
ApiResult(outcome) ==
  IF outcome = "json" THEN "json"
  ELSE IF outcome = "falsy_json" THEN "falsy_json"
  ELSE "None"

\* the `else:` branch of a navigation command: send_command, then `if result:`
ApiCommand ==
  /\ pc = "request"
  /\ \E outcome \in Outcomes :
       LET r == ApiResult(outcome)
       IN  /\ Return(r)
           /\ current_position' =
                IF ~Truthy(r) THEN current_position
                ELSE IF op.name = "takeoff" THEN [current_position EXCEPT !.z = op.height]
                ELSE IF op.name = "move" THEN [x |-> op.x, y |-> op.y, z |-> op.z]
                ELSE IF op.name = "land" THEN [current_position EXCEPT !.z = 0]
                ELSE current_position
           /\ current_heading' =
                IF Truthy(r) /\ op.name = "rotate"
                THEN NextHeading(current_heading, op.degrees)
                ELSE current_heading
           /\ airborne' =
                IF Truthy(r) /\ op.name = "takeoff" THEN TRUE
                ELSE IF Truthy(r) /\ op.name = "land" THEN FALSE
                ELSE airborne
  /\ requests' = Bump(requests)
  /\ UNCHANGED <<msp, op, cmdFrames, holdFrames>>
  /\ UNCHANGED <<linkVars, callerVars, closeVars>>

\* -------------------------------------------------------------------- close
\* MSPProtocol.close without the is_open test
CloseController_Unguarded ==
  IF msp
  THEN /\ is_open' = FALSE
       /\ closes' = Bump(closes)
  ELSE UNCHANGED <<is_open, closes>>

\* DroneController.close and MSPProtocol.close
CloseController ==
  IF msp /\ is_open
  THEN /\ is_open' = FALSE
       /\ closes' = Bump(closes)
  ELSE UNCHANGED <<is_open, closes>>

\* ------------------------------------------------------------ free caller
callVars == <<msp, requests, incall, exc, mainpc>>

\* the caller is between two calls and may make another
FreeToCall ==
  /\ mainpc = "free" /\ pc = "idle"
  /\ calls < MaxCalls
  /\ calls' = calls + 1

FreeTakeoff ==
  /\ FreeToCall
  /\ \E h \in Alts : StartTakeoff(h)
  /\ UNCHANGED <<callVars, poseVars, linkVars, closeVars>>

FreeMove ==
  /\ FreeToCall
  /\ \E x \in Xs, y \in Ys, z \in Alts : StartMove(x, y, z)
  /\ UNCHANGED <<callVars, poseVars, linkVars, closeVars>>

FreeRotate ==
  /\ FreeToCall
  /\ \E d \in Degrees : StartRotate(d)
  /\ UNCHANGED <<callVars, poseVars, linkVars, closeVars>>

FreeLand ==
  /\ FreeToCall
  /\ StartLand
  /\ UNCHANGED <<callVars, poseVars, linkVars, closeVars>>

FreeClose ==
  /\ FreeToCall
  /\ CloseController
  /\ UNCHANGED <<msp, pc, op, result, cmdFrames, holdFrames, requests, mainpc, incall,
                 exc>>
  /\ UNCHANGED <<localVars, poseVars, linkVars>>

\* ------------------------------------------------------------------- main()
Plan == {"takeoff", "move", "rotate", "land"}

AfterStep(s) ==
  IF s = "takeoff" THEN "move"
  ELSE IF s = "move" THEN "rotate"
  ELSE IF s = "rotate" THEN "land"
  ELSE "finally"

StartStep(s) ==
  IF s = "takeoff" THEN StartTakeoff(MainHeight)
  ELSE IF s = "move" THEN StartMove(MainX, MainY, MainZ)
  ELSE IF s = "rotate" THEN StartRotate(MainDegrees)
  ELSE StartLand

\* main() makes the next call of the try block, or the land() of the except block
MainCall ==
  /\ mainpc \in Plan \cup {"except"}
  /\ ~incall /\ pc = "idle"
  /\ StartStep(IF mainpc = "except" THEN "land" ELSE mainpc)
  /\ incall' = TRUE
  /\ UNCHANGED <<msp, requests, mainpc, exc, calls>>
  /\ UNCHANGED <<poseVars, linkVars, closeVars>>

\* the call returns to main(): `if not ...: raise Exception(...)`, `except Exception`
MainReturn ==
  /\ incall /\ pc = "idle"
  /\ incall' = FALSE
  /\ IF mainpc = "except"
     THEN /\ mainpc' = "finally"
          /\ exc' = IF result = "raised" THEN "propagating" ELSE exc
     ELSE /\ mainpc' = IF Truthy(result) THEN AfterStep(mainpc) ELSE "except"
          /\ exc' = IF Truthy(result) THEN exc ELSE "handled"
  /\ UNCHANGED <<msp, pc, op, result, cmdFrames, holdFrames, requests, calls>>
  /\ UNCHANGED <<localVars, poseVars, linkVars, closeVars>>

\* the finally block: drone.close(), then main() returns or the propagating exception leaves it
MainClose ==
  /\ mainpc = "finally"
  /\ CloseController
  /\ mainpc' = IF exc = "propagating" THEN "escaped" ELSE "exit"
  /\ UNCHANGED <<msp, pc, op, result, cmdFrames, holdFrames, requests, incall, exc,
                 calls>>
  /\ UNCHANGED <<localVars, poseVars, linkVars>>

\* ------------------------------------------------- send_command called directly
Commands == {0, MSP_SET_RAW_RC, MSP_ARM, MSP_DISARM, 255}

\* a controller whose MSPProtocol is handed arbitrary commands and payloads
InitCodec == InitController /\ msp /\ mainpc = "codec"

\* MSPProtocol.send_command(command, data)
SendCommand ==
  /\ mainpc = "codec"
  /\ \E c \in Commands, d \in Payloads :
       /\ op' = [name |-> "send_command", command |-> c, data |-> d]
       /\ Written(Packet(c, d))
  /\ UNCHANGED <<msp, pc, result, holdFrames, requests>>
  /\ UNCHANGED <<localVars, poseVars, callerVars, closeVars>>

\* ----------------------------------------------------------- specifications
Step ==
  \/ WriteFailure
  \/ TakeoffArm \/ TakeoffRamp \/ TakeoffSettle \/ TakeoffUpdate
  \/ MoveHold \/ MoveNeutral \/ MoveUpdate
  \/ RotateHold \/ RotateNeutral \/ RotateUpdate
  \/ LandRamp \/ LandDisarm \/ LandUpdate
  \/ ApiCommand

Next ==
  \/ FreeTakeoff \/ FreeMove \/ FreeRotate \/ FreeLand \/ FreeClose
  \/ Step

NextMain == MainCall \/ MainReturn \/ MainClose \/ Step

Spec == Init /\ [][Next]_vars

SpecMain == InitMain /\ [][NextMain]_vars

\* the interpreter runs the command in progress on: sleeps end, writes return or raise
SpecLive == Spec /\ WF_vars(Step)

NextCodec == SendCommand

SpecCodec == InitCodec /\ [][NextCodec]_vars

\* ------------------------------------------------------------------ claims
Returned == pc = "idle" /\ result # "none"
Returning == pc # "idle" /\ pc' = "idle"
Origin == [x |-> 0, y |-> 0, z |-> 0]
Target == [x |-> op.x, y |-> op.y, z |-> op.z]

\* C1: on the serial path a move or rotate made while the controller is grounded
\* (no completed takeoff since construction or since the last completed land) is
\* rejected: it writes no packet, leaves position and heading as they were and
\* does not return success.
C1_GroundedMoveRejected ==
  [][(msp /\ ~airborne /\ op.name \in {"move", "rotate"} /\ pc # "idle")
       => /\ cmdFrames' = cmdFrames
          /\ current_position' = current_position
          /\ current_heading' = current_heading
          /\ ~Truthy(result')]_vars

\* C2: whenever close() releases the serial port, a land() was attempted first:
\* the last navigation call made on the controller is a land that ran to its
\* end or raised.
C2_CloseLandsFirst ==
  [][(is_open /\ ~is_open') => (op.name = "land" /\ result \in {"True", "raised"})]_vars

\* C3: every RC packet on the serial port carries eight channel values within
\* [1000, 2000], and every RC packet written by move carries roll and pitch
\* within [1400, 1600].
C3_ChannelsInRange ==
  IsRc(lastFrame) =>
    /\ \A n \in 1..8 : Channel(lastFrame, n) \in ChannelMin..ChannelMax
    /\ (op.name = "move" /\ cmdFrames > 0) =>
         /\ Roll(lastFrame) \in RollPitchMin..RollPitchMax
         /\ Pitch(lastFrame) \in RollPitchMin..RollPitchMax

\* a hold packet of move at the lower limit of roll and a deflected pitch
C3_Witness ==
  /\ op.name = "move" /\ holdFrames > 0 /\ IsRc(lastFrame)
  /\ Roll(lastFrame) = RollPitchMin
  /\ Pitch(lastFrame) = Neutral

\* C4: when a move returns a truthy result, on either transport and from any
\* prior pose, the position is exactly the commanded x, y, z and the heading is
\* what it was.
C4_MoveSetsTarget ==
  [][(op.name = "move" /\ Returning /\ Truthy(result'))
       => /\ current_position' = Target
          /\ current_heading' = current_heading]_vars

\* a move on the serial path that held its channels, made after a rotate, has ended
\* on its target away from the origin
C4_Witness ==
  /\ msp /\ Returned /\ op.name = "move" /\ result = "True" /\ holdFrames > 0
  /\ current_position = Target /\ current_position # Origin
  /\ current_position.z # 0
  /\ current_heading # 0

ZeroMove == op.name = "move" /\ pc # "idle" /\ current_position = Target
ZeroRotate == op.name = "rotate" /\ op.degrees = 0

\* C6: on the serial path a move to the current position writes no packet and a
\* rotate by 0 writes nothing but one neutral RC packet; neither runs an
\* iteration of the hold loop nor spends hold time, and unless the write of that
\* packet raises both return success.
C6_ZeroMotionShortCircuit ==
  /\ []((msp /\ ZeroMove)
          => (pc = "move_update" /\ cmdFrames = 0 /\ holdFrames = 0 /\ elapsed = 0))
  /\ []((msp /\ ZeroRotate)
          => /\ holdFrames = 0 /\ elapsed = 0 /\ cmdFrames <= 1
             /\ (cmdFrames = 1 => IsNeutral(lastFrame))
             /\ (pc = "idle" => result \in {"True", "raised"})
             /\ (pc = "idle" /\ cmdFrames = 1 => result = "True"))
  /\ [][(msp /\ ZeroMove /\ pc' = "idle") => result' = "True"]_vars

\* a rotate by 0 has returned success after its single neutral packet
C6_Witness ==
  /\ msp /\ Returned /\ op.name = "rotate" /\ op.degrees = 0
  /\ result = "True" /\ cmdFrames = 1 /\ holdFrames = 0 /\ IsNeutral(lastFrame)

\* main() on the serial path has left its try block without an exception
FlightCompleted == msp /\ mainpc = "exit" /\ exc = "none"

\* C7: main() on the serial path, when none of its calls fails: takeoff arms
\* before the throttle ramp and ramps before the settle window, the flight ends
\* at x = 50, y = 0, z = 0 with heading 180, and the serial port has seen one
\* DISARM packet, written by land right after the last packet of its ramp.
C7_Scenario ==
  /\ [](FlightCompleted =>
          /\ current_position = [x |-> MainX, y |-> MainY, z |-> 0]
          /\ current_heading = MainDegrees
          /\ disarms = 1
          /\ lastFrame = DisarmFrame)
  /\ [][msp =>
          /\ (pc' = "takeoff_ramp" /\ pc # "takeoff_ramp")
               => (pc = "takeoff_arm" /\ cmdFrames = 0 /\ lastFrame' = ArmFrame)
          /\ (pc' = "takeoff_settle" /\ pc # "takeoff_settle")
               => (pc = "takeoff_ramp"
                   /\ Throttle(lastFrame') = TakeoffRampStop - TakeoffRampStep)
          /\ (pc' = "takeoff_update")
               => (pc = "takeoff_settle" /\ Throttle(lastFrame') = SettleThrottle)
          /\ (airborne' /\ ~airborne) => pc = "takeoff_update"]_vars
  /\ [][(disarms' # disarms)
         => /\ op.name = "land" /\ lastFrame' = DisarmFrame
            /\ IsRc(lastFrame)
            /\ Throttle(lastFrame) = LandRampStop + LandRampStep]_vars

\* main() has run its four calls without a failure
C7_Witness ==
  /\ FlightCompleted
  /\ current_position = [x |-> MainX, y |-> MainY, z |-> 0]
  /\ current_heading = MainDegrees
  /\ disarms = 1 /\ ~is_open

\* C8: the transport is chosen at construction and never changes: a controller
\* with a serial link never makes a remote-API request, whatever the state of
\* the port, and a controller without one never writes a packet.
C8_TransportFixed ==
  /\ [](msp => (requests = 0 /\ pc # "request"))
  /\ [](~msp => (lastFrame = NoFrame /\ disarms = 0 /\ cmdFrames = 0
                 /\ pc \in {"idle", "request"}))
  /\ [][msp' = msp]_vars

\* a takeoff made after close() still went to the serial path and raised there
C8_Witness ==
  /\ msp /\ ~is_open /\ Returned
  /\ op.name = "takeoff" /\ result = "raised" /\ requests = 0

\* C9: in main() a failed call is followed by a land() attempt and by no other
\* call of the plan, close() runs, and an exception raised by that land() does
\* not leave main().
C9_FailureLandsAndIsContained ==
  /\ (mainpc \in {"exit", "escaped"} /\ exc # "none") => op.name = "land"
  /\ (mainpc \in {"exit", "escaped"} /\ msp) => ~is_open
  /\ mainpc # "escaped"

\* C10: a write that raises during the hold of a move or rotate does not abort
\* the command: on an open port every move and rotate returns success, and one
\* that wrote packets ended on the neutral packet.
C10_HoldSurvivesWriteFailure ==
  (msp /\ is_open /\ op.name \in {"move", "rotate"} /\ pc = "idle")
    => /\ result = "True"
       /\ cmdFrames > 0 => IsNeutral(lastFrame)

\* C11: close() can be called any number of times in any state: the serial
\* port is closed at most once and only while open, it is never reopened, a
\* later close() changes nothing, and without a serial link close() does nothing.
C11_CloseIdempotent ==
  /\ [](closes <= 1)
  /\ [](~msp => (closes = 0 /\ ~is_open))
  /\ [](msp => (is_open <=> closes = 0))
  /\ [][(closes' # closes) => (is_open /\ ~is_open')]_vars
  /\ [][(pc = "idle" /\ pc' = "idle" /\ op' = op)
         => (result' = result /\ current_position' = current_position
             /\ current_heading' = current_heading /\ lastFrame' = lastFrame)]_vars

\* close() was called twice in a row on a controller with a serial link
C11_Witness ==
  /\ msp /\ calls = 2 /\ op.name = "none" /\ pc = "idle"
  /\ closes = 1 /\ ~is_open /\ result = "none"

\* bit b of the byte v, and v with that bit flipped
Bit(v, b) == (v \div (2 ^ b)) % 2
FlipBit(v, b) == IF Bit(v, b) = 1 THEN v - 2 ^ b ELSE v + 2 ^ b

\* the byte whose bit b is the parity of the bits b of the bytes of s
RECURSIVE ParityFrom(_, _)
ParityFrom(s, b) ==
  IF b > 7 THEN 0
  ELSE (Cardinality({i \in DOMAIN s : Bit(s[i], b) = 1}) % 2) * (2 ^ b)
       + ParityFrom(s, b + 1)

\* the length, command and payload bytes of a packet
Checksummed(f) == SubSeq(f, 4, Len(f) - 1)

\* C12: the packet send_command writes for a command byte and a payload starts
\* with '$M<', carries the payload length, the command and the payload, is
\* 6 + length bytes long and ends with the bitwise parity (XOR) of the length,
\* command and payload bytes; flipping any one bit of those bytes changes the
\* checksum recomputed over them.
C12_FrameFormat ==
  (mainpc = "codec" /\ op.name = "send_command") =>
    LET f == lastFrame
        n == Len(op.data)
    IN  /\ Len(f) = 6 + n
        /\ SubSeq(f, 1, 3) = <<36, 77, 60>>
        /\ f[4] = n
        /\ f[5] = op.command
        /\ SubSeq(f, 6, 5 + n) = op.data
        /\ f[6 + n] = ParityFrom(Checksummed(f), 0)
        /\ f[6 + n] \in 0..255
        /\ \A i \in 4..(5 + n), b \in 0..7 :
             ParityFrom(Checksummed([f EXCEPT ![i] = FlipBit(f[i], b)]), 0) # f[6 + n]

\* an RC command with a two-byte payload was written with a non-zero checksum
C12_Witness ==
  /\ mainpc = "codec" /\ op.name = "send_command"
  /\ op.command = MSP_SET_RAW_RC /\ op.data = <<170, 255>>
  /\ Len(lastFrame) = 8 /\ lastFrame[8] = 159

Wrote(p) == pc = p /\ pc' # "idle"

\* an RC packet with roll, pitch and yaw neutral
LevelFrame(f) ==
  IsRc(f) /\ Roll(f) = Neutral /\ Pitch(f) = Neutral /\ Yaw(f) = Neutral

\* x, y and the heading stay as they are
KeepsPlanarPose ==
  /\ current_position'.x = current_position.x
  /\ current_position'.y = current_position.y
  /\ current_heading' = current_heading

\* C15: takeoff over the serial link writes ARM as its first packet; then RC
\* packets with roll, pitch and yaw at 1500 whose throttle starts at 1000 and
\* rises by 10 per packet, staying below 1500 and ending at 1490; then RC
\* packets with throttle 1550 and roll, pitch and yaw at 1500; z is set to the
\* requested height only after the last of them, and x, y and the heading are
\* never changed by takeoff.
C15_TakeoffSequence ==
  /\ [][Wrote("takeoff_arm")
         => (cmdFrames = 0 /\ lastFrame' = ArmFrame /\ pc' = "takeoff_ramp")]_vars
  /\ [][Wrote("takeoff_ramp")
         => (/\ LevelFrame(lastFrame')
             /\ Throttle(lastFrame') = IF lastFrame = ArmFrame
                                       THEN TakeoffRampStart
                                       ELSE Throttle(lastFrame) + TakeoffRampStep
             /\ Throttle(lastFrame') < TakeoffRampStop
             /\ (pc' = "takeoff_settle"
                   <=> Throttle(lastFrame') + TakeoffRampStep >= TakeoffRampStop))]_vars
  /\ [][Wrote("takeoff_settle")
         => (/\ LevelFrame(lastFrame')
             /\ Throttle(lastFrame') = SettleThrottle
             /\ LevelFrame(lastFrame)
             /\ Throttle(lastFrame) \in {TakeoffRampStop - TakeoffRampStep,
                                         SettleThrottle})]_vars
  /\ [][(msp /\ op.name = "takeoff" /\ pc # "idle")
         => (/\ KeepsPlanarPose
             /\ (current_position' # current_position
                   => (/\ pc = "takeoff_update"
                       /\ lastFrame = RcFrame(Neutral, Neutral, SettleThrottle, Neutral)
                       /\ current_position'.z = op.height
                       /\ result' = "True")))]_vars
  /\ [][(pc = "takeoff_update")
         => (current_position'.z = op.height /\ lastFrame' = lastFrame)]_vars

\* a takeoff away from the origin completed and raised z only
C15_Witness ==
  /\ msp /\ Returned /\ op.name = "takeoff" /\ result = "True"
  /\ op.height > 0 /\ current_position.z = op.height
  /\ current_position.x # 0
  /\ lastFrame = RcFrame(Neutral, Neutral, SettleThrottle, Neutral)

\* C16: land over the serial link, whatever the state it is called in, writes
\* RC packets with roll, pitch and yaw at 1500 whose throttle starts at 1500
\* and falls by 5 per packet, staying above 1300 and ending at 1305; then one
\* DISARM packet, the last packet of the command; z is set to 0 only after
\* it; land writes no ARM packet and never changes x, y or the heading.
C16_LandSequence ==
  /\ [][Wrote("land_ramp")
         => (/\ LevelFrame(lastFrame')
             /\ Throttle(lastFrame') = IF cmdFrames = 0
                                       THEN LandRampStart
                                       ELSE Throttle(lastFrame) - LandRampStep
             /\ Throttle(lastFrame') > LandRampStop
             /\ (pc' = "land_disarm"
                   <=> Throttle(lastFrame') - LandRampStep <= LandRampStop))]_vars
  /\ [][Wrote("land_disarm")
         => (/\ lastFrame' = DisarmFrame
             /\ disarms' = Bump(disarms)
             /\ LevelFrame(lastFrame)
             /\ Throttle(lastFrame) = LandRampStop + LandRampStep
             /\ pc' = "land_update")]_vars
  /\ [][(msp /\ op.name = "land" /\ pc # "idle")
         => (/\ KeepsPlanarPose
             /\ (lastFrame' # lastFrame => pc \in {"land_ramp", "land_disarm"})
             /\ (pc' # "idle" => lastFrame' # ArmFrame)
             /\ (disarms' # disarms => pc = "land_disarm")
             /\ (current_position' # current_position
                   => (/\ pc = "land_update"
                       /\ lastFrame = DisarmFrame
                       /\ current_position'.z = 0
                       /\ result' = "True")))]_vars
  /\ [][(pc = "land_update")
         => (current_position'.z = 0 /\ lastFrame = DisarmFrame
             /\ lastFrame' = lastFrame)]_vars

\* a land called in flight away from the origin completed
C16_Witness ==
  /\ msp /\ Returned /\ op.name = "land" /\ result = "True"
  /\ lastFrame = DisarmFrame /\ disarms = 1
  /\ current_position.z = 0 /\ current_position.x # 0

\* C17: a move with a non-zero planar distance and a rotate with non-zero
\* degrees over the serial link return only after writing an RC packet with
\* roll, pitch, throttle and yaw at 1500 as their last packet; every packet
\* of a rotate hold carries yaw 1600 for degrees > 0 and 1400 for degrees < 0
\* with roll, pitch and throttle at 1500.
C17_NeutralBeforeReturn ==
  /\ [][(msp /\ Returning /\ result' = "True" /\ op.name = "move" /\ Distance2 > 0)
         => (cmdFrames >= 2 /\ holdFrames >= 1 /\ IsNeutral(lastFrame)
             /\ lastFrame' = lastFrame)]_vars
  /\ [][(msp /\ Returning /\ result' = "True" /\ op.name = "rotate" /\ op.degrees # 0)
         => (cmdFrames >= 2 /\ holdFrames >= 1 /\ IsNeutral(lastFrame)
             /\ lastFrame' = lastFrame)]_vars
  /\ [][(pc = "rotate_hold" /\ pc' = "rotate_hold")
         => (/\ op.degrees # 0
             /\ IsRc(lastFrame')
             /\ Yaw(lastFrame') = IF op.degrees > 0 THEN YawRight ELSE YawLeft
             /\ Roll(lastFrame') = Neutral
             /\ Pitch(lastFrame') = Neutral
             /\ Throttle(lastFrame') = Neutral)]_vars
  /\ [][(pc = "rotate_hold" /\ pc' = "rotate_hold") => holdFrames' = Bump(holdFrames)]_vars

\* a rotate to the left held its yaw and returned after the neutral packet
C17_Witness ==
  /\ msp /\ Returned /\ result = "True" /\ op.name = "rotate" /\ op.degrees < 0
  /\ holdFrames >= 1 /\ IsNeutral(lastFrame)

\* the places where a command over the serial link has written its last packet
UpdatePcs == {"takeoff_update", "move_update", "rotate_update", "land_update"}

PoseChanges ==
  current_position' # current_position \/ current_heading' # current_heading

\* C18: over the serial link position and heading are written only by the
\* last step of a command, after its last packet and together with its True
\* result: they change neither when the command is dispatched nor while it
\* writes ramp, settle or hold packets, and a command ended by an error
\* leaves them as they were before it.
C18_PoseAtCompletion ==
  /\ [][(msp /\ PoseChanges)
         => (/\ pc \in UpdatePcs
             /\ pc' = "idle"
             /\ result' = "True"
             /\ lastFrame' = lastFrame)]_vars
  /\ [][(pc = "idle" /\ pc' # "idle") => ~PoseChanges]_vars
  /\ [][(pc \in WritingPcs) => ~PoseChanges]_vars
  /\ [][(result' = "raised") => ~PoseChanges]_vars
  /\ [](pc \in UpdatePcs => (msp /\ result = "pending"))

\* a first move was cut by a write error during its hold: the position is
\* still the origin
C18_Witness ==
  /\ msp /\ Returned /\ result = "raised" /\ calls = 1
  /\ op.name = "move" /\ op.x # 0 /\ holdFrames >= 1
  /\ current_position = Origin /\ current_heading = 0

\* the hold loop of the command in progress has not reached its planned
\* duration: 2 s per unit of planar distance, |degrees| / 45 s for a rotate
MoveTimeLeft ==
  elapsed * elapsed
    < (MoveSecondsPerUnit * TicksPerSecond) * (MoveSecondsPerUnit * TicksPerSecond) * Distance2
RotateTimeLeft == DegreesPerSecond * elapsed < TicksPerSecond * Abs(op.degrees)

\* C19: every move and rotate hold over the serial link ends and the command
\* leaves the hold; while the elapsed time is below the planned duration the
\* hold goes on: the next step writes the same channel values again and the
\* clock moves on by at least the per-command and per-step sleeps; the hold
\* is left for the neutral packet only once the planned duration is reached.
C19_HoldRunsItsDuration ==
  /\ (pc \in {"move_hold", "rotate_hold"}) ~> (pc \notin {"move_hold", "rotate_hold"})
  /\ [][(pc = "move_hold" /\ MoveTimeLeft)
         => (/\ pc' = "move_hold"
             /\ lastFrame' = RcFrame(roll_value, pitch_value, Neutral, Neutral)
             /\ roll_value' = roll_value /\ pitch_value' = pitch_value
             /\ elapsed' >= elapsed + CommandSleep + StepSleep)]_vars
  /\ [][(pc = "rotate_hold" /\ RotateTimeLeft)
         => (/\ pc' = "rotate_hold"
             /\ lastFrame' = RcFrame(Neutral, Neutral, Neutral, yaw_value)
             /\ yaw_value' = yaw_value
             /\ elapsed' >= elapsed + CommandSleep + StepSleep)]_vars
  /\ [][(pc = "move_hold" /\ pc' = "move_update") => ~MoveTimeLeft]_vars
  /\ [][(pc = "rotate_hold" /\ pc' = "rotate_update") => ~RotateTimeLeft]_vars

\* a move over the serial link is dispatched to the current x and y with
\* another z
VerticalMoveDispatched ==
  /\ msp /\ pc = "idle" /\ pc' # "idle" /\ op'.name = "move"
  /\ op'.x = current_position.x /\ op'.y = current_position.y
  /\ op'.z # current_position.z

\* C20: every packet a move writes over the serial link is an RC packet with
\* throttle 1500 and yaw 1500, whatever the requested z; a move to the
\* current x and y with another z writes no packet, returns True and sets z
\* to the requested value.
C20_MoveIgnoresZ ==
  /\ [][(msp /\ op.name = "move" /\ pc # "idle" /\ lastFrame' # lastFrame)
         => (/\ pc = "move_hold"
             /\ IsRc(lastFrame')
             /\ Throttle(lastFrame') = Neutral
             /\ Yaw(lastFrame') = Neutral)]_vars
  /\ [][(msp /\ op.name = "move" /\ pc # "idle" /\ cmdFrames' # cmdFrames)
         => (pc = "move_hold" /\ lastFrame' # ArmFrame /\ lastFrame' # DisarmFrame
             /\ Throttle(lastFrame') = Neutral /\ Yaw(lastFrame') = Neutral)]_vars
  /\ [][VerticalMoveDispatched => (pc' = "move_update" /\ cmdFrames' = 0)]_vars
  /\ [][(pc = "move_update" /\ cmdFrames = 0)
         => (/\ pc' = "idle"
             /\ result' = "True"
             /\ cmdFrames' = 0
             /\ lastFrame' = lastFrame
             /\ current_position' = Target)]_vars

\* a first move from the origin straight up returned True without a packet
C20_Witness ==
  /\ msp /\ Returned /\ result = "True" /\ calls = 1
  /\ op.name = "move" /\ op.x = 0 /\ op.y = 0 /\ op.z > 0
  /\ cmdFrames = 0 /\ lastFrame = NoFrame
  /\ current_position = [x |-> 0, y |-> 0, z |-> op.z]

====
